---- MODULE Spec2Model ----
(***************************************************************************)
(* Model of the compile -> invoke -> correlate pipeline of                 *)
(* github-action-ft-integration-mbt:                                       *)
(*   - MbtPreTestExecuter.updateTestScriptResources / createMbtPropsFile   *)
(*   - FtTestExecuter.process / createPropsFile / createMtbxFile           *)
(*   - JUnitXmlIterator.processTestCase / extractValueFromStdout           *)
(*                                                                         *)
(* A text (a JavaScript string) is a sequence of atoms.  An atom is either *)
(* one character the code looks at (a delimiter, a blank, a letter of a    *)
(* searched token) or a run of characters no search of the code can match  *)
(* inside.  Indexes are the 0-based indexes of JavaScript.                 *)
(***************************************************************************)
EXTENDS Integers, Sequences, FiniteSets, TLC

VARIABLES
  \* ---- JUnitXmlIterator (one instance) ----
  it,          \* the instance fields of lines 13-29
  results,     \* testNameToJunitResultMap, in insertion order: <<key, result>>
  lastCase,    \* the CaseResult handed to the latest processTestCase call
  jpc,         \* "idle" | "ready" | "thrown": position of processXmlResult
  nCases,      \* number of processTestCase calls made so far
  \* ---- MbtPreTestExecuter.updateTestScriptResources (one call) ----
  scriptData,  \* the argument: the ordered units of one test
  index,       \* the local 'index' (0-based)
  scriptLines, \* the local 'scriptLines'
  resolvedAt,  \* the indexes at which isTestFolder and extractTestResources ran
  compiled,    \* the returned text
  cpc,         \* "idle" | "loop" | "done" | "thrown"
  \* ---- MbtPreTestExecuter.createMbtPropsFile (one call) ----
  testInfos,   \* the argument: the MbtTestInfo list
  props,       \* the local object 'props', in insertion order: <<key, value>>
  taskPc,      \* per callback of testInfos.map (0-based): "pending" | "done" | "failed"
  propWrites,  \* the assignments to props made by the callbacks: <<i, key>>
  mbtResult,   \* the returned path
  mpc,         \* "idle" | "start" | "awaiting" | "mkdir" | "write" | "returned" | "threw"
  \* ---- FtTestExecuter.process (one call) ----
  uftInfos,    \* the argument: the UftTestInfo list
  config,      \* the environment-driven configuration (../config/config)
  host,        \* what the host allows: [writable, toolInstalled]
  ftResult,    \* the returned record
  fpc,         \* "idle" | "access" | "mtbx" | "props" | "tool" | "run" | "returned" | "threw..."
  \* ---- the host ----
  files,       \* fs.writeFile calls that succeeded, in order: [path, content]
  dirs,        \* directories made by fs.mkdir
  spawned      \* engine processes spawned, in order: [bin, arg]

junitVars == <<it, results, lastCase, jpc, nCases>>
compileVars == <<scriptData, index, scriptLines, resolvedAt, compiled, cpc>>
mbtVars == <<testInfos, props, taskPc, propWrites, mbtResult, mpc>>
ftVars == <<uftInfos, config, host, ftResult, fpc>>
hostVars == <<files, dirs, spawned>>
vars == <<junitVars, compileVars, mbtVars, ftVars, hostVars>>

\* ------------------------------------------------------------------------
\* Bounds
\* ------------------------------------------------------------------------
MaxCases == 2
MaxUnits == 3
MaxTests == 2

\* ------------------------------------------------------------------------
\* JavaScript strings
\* ------------------------------------------------------------------------
\* undefined (a missing optional field) and null, as values no text equals
Absent == <<"<undefined>">>
Null == <<"<null>">>
Empty == <<>>

\* JavaScript truthiness of an optional string
Truthy(s) == s # Absent /\ s # Null /\ s # Empty

Min(a, b) == IF a < b THEN a ELSE b
Max(a, b) == IF a > b THEN a ELSE b

\* s.startsWith(pat, i) with a 0-based i
MatchesAt(s, pat, i) ==
  /\ i >= 0
  /\ i + Len(pat) <= Len(s)
  /\ \A k \in 1..Len(pat) : s[i + k] = pat[k]

\* String.prototype.indexOf(pat, from): least 0-based index >= from, or -1
RECURSIVE IndexOfFrom(_, _, _)
IndexOfFrom(s, pat, from) ==
  IF from < 0 THEN IndexOfFrom(s, pat, 0)
  ELSE IF from + Len(pat) > Len(s) THEN -1
  ELSE IF MatchesAt(s, pat, from) THEN from
  ELSE IndexOfFrom(s, pat, from + 1)

IndexOf(s, pat) == IndexOfFrom(s, pat, 0)

\* String.prototype.substring(a, b): arguments clamped to [0, length] and
\* swapped when a > b
Substring(s, a, b) ==
  LET ca == Min(Max(a, 0), Len(s))
      cb == Min(Max(b, 0), Len(s))
      lo == Min(ca, cb)
      hi == Max(ca, cb)
  IN SubSeq(s, lo + 1, hi)

WhiteSpace == {" ", "\t", "\n", "\r"}

RECURSIVE TrimStart(_)
TrimStart(s) ==
  IF s # <<>> /\ Head(s) \in WhiteSpace THEN TrimStart(Tail(s)) ELSE s

RECURSIVE TrimEnd(_)
TrimEnd(s) ==
  IF s # <<>> /\ s[Len(s)] \in WhiteSpace
    THEN TrimEnd(SubSeq(s, 1, Len(s) - 1))
    ELSE s

\* String.prototype.trim()
Trim(s) == TrimEnd(TrimStart(s))

\* Array.prototype.join(sep) on an array of texts
RECURSIVE Join(_, _)
Join(parts, sep) ==
  IF parts = <<>> THEN <<>>
  ELSE IF Len(parts) = 1 THEN parts[1]
  ELSE parts[1] \o sep \o Join(Tail(parts), sep)

\* String.prototype.split(sep) for a one-atom separator: always at least one part
RECURSIVE Split(_, _)
Split(s, sep) ==
  LET i == IndexOf(s, <<sep>>)
  IN IF i < 0 THEN <<s>>
     ELSE <<SubSeq(s, 1, i)>> \o Split(SubSeq(s, i + 2, Len(s)), sep)

\* Map.prototype.set, and obj[k] = v on an object with string keys: an
\* existing key keeps its place, a new key goes last.  Object.entries and
\* Map.prototype.values enumerate in that order.
MapSet(m, k, v) ==
  IF \E i \in 1..Len(m) : m[i][1] = k
    THEN [i \in 1..Len(m) |-> IF m[i][1] = k THEN <<k, v>> ELSE m[i]]
    ELSE Append(m, <<k, v>>)

\* `${n}` for a number n
NumText(n) == <<ToString(n)>>

\* ------------------------------------------------------------------------
\* The file system and the descriptor documents the compiler reads
\* ------------------------------------------------------------------------
\* test folders: A, B and D hold a Test.tsp, C holds only C.st, X holds
\* neither
TestPaths == {<<"A">>, <<"B">>, <<"C">>, <<"D">>, <<"X">>}

ExistingFiles ==
  { <<"A", "/", "Test.tsp">>, <<"B", "/", "Test.tsp">>, <<"C", "/", "C.st">>,
    <<"D", "/", "Test.tsp">> }

\* fs.access resolves
Accessible(file) == file \in ExistingFiles

NullDoc == [isNull |-> TRUE]

\* getGuiTestDocument (../utils/utils): the parsed Test.tsp, or null.
\* funcLibs: the text of every FuncLib element, in document order;
\* recoveryScenarios: the text of every RecoveryScenarios element.
GetGuiTestDocument(file) ==
  IF file = <<"A", "\\", "Test.tsp">>
    THEN [isNull |-> FALSE,
          funcLibs |-> << <<"lib1.qfl">>, Empty, <<"lib2.qfl">> >>,
          recoveryScenarios |->
            << <<"rec1.qrs", "|", "Scenario1", "*", "malformed", "*",
                 "rec2.qrs", "|", "Scenario2", "|", "extra", "*">> >>]
  ELSE IF file = <<"B", "\\", "Test.tsp">>
    THEN [isNull |-> FALSE,
          funcLibs |-> <<>>,
          recoveryScenarios |-> << <<"rec.qrs", "|", "Scenario">> >>]
  ELSE IF file = <<"D", "\\", "Test.tsp">>
    THEN [isNull |-> FALSE,
          funcLibs |-> << <<"common.qfl">> >>,
          recoveryScenarios |-> <<>>]
  ELSE NullDoc

\* ------------------------------------------------------------------------
\* MbtPreTestExecuter (src/src/mbt/MbtPreTestExecuter.ts, lines 1-136)
\* ------------------------------------------------------------------------
CRLF == <<"\r", "\n">>
Quote == <<"\"">>

\* path.basename of a path
Basename(p) == <<p[Len(p)]>>

\* path.join(a, b)
PathJoin(a, b) == a \o <<"/">> \o b

\* lines 122-135
isTestFolder(testPath) ==
  \/ Accessible(PathJoin(testPath, <<"Test.tsp">>))
  \/ Accessible(PathJoin(testPath, Basename(testPath) \o <<".st">>))

EmptyResources == [functionLibraries |-> <<>>, recoveryScenarioData |-> <<>>]

\* lines 61-65: the non-empty FuncLib texts, each under the test path
RECURSIVE FunctionLibraries(_, _)
FunctionLibraries(testPath, libs) ==
  IF libs = <<>> THEN <<>>
  ELSE (IF Head(libs) # Empty
          THEN << testPath \o <<"/">> \o Head(libs) >>
          ELSE <<>>)
       \o FunctionLibraries(testPath, Tail(libs))

\* lines 70-76: the '*'-separated parts with at least two '|'-separated fields
RECURSIVE RecoveryScenarioData(_, _)
RecoveryScenarioData(testPath, rsParts) ==
  IF rsParts = <<>> THEN <<>>
  ELSE LET rsAsArray == Split(Head(rsParts), "|")
       IN (IF Len(rsAsArray) > 1
             THEN << [path |-> testPath \o <<"/">> \o rsAsArray[1],
                      name |-> rsAsArray[2]] >>
             ELSE <<>>)
          \o RecoveryScenarioData(testPath, Tail(rsParts))

\* lines 48-83: a missing document raises TspParseError, which is caught
extractTestResources(testPath) ==
  LET doc == GetGuiTestDocument(testPath \o <<"\\", "Test.tsp">>)
  IN IF doc.isNull THEN EmptyResources
     ELSE [functionLibraries |-> FunctionLibraries(testPath, doc.funcLibs),
           recoveryScenarioData |->
             IF doc.recoveryScenarios = <<>> THEN <<>>
             ELSE RecoveryScenarioData(testPath,
                                       Split(doc.recoveryScenarios[1], "*"))]

\* line 104, for every library
RECURSIVE LoadFunctionLibraryLines(_)
LoadFunctionLibraryLines(fls) ==
  IF fls = <<>> THEN <<>>
  ELSE <<" LoadFunctionLibrary ">> \o Quote \o Head(fls) \o Quote \o CRLF
       \o LoadFunctionLibraryLines(Tail(fls))

\* line 109: one token per scenario
RECURSIVE ScenarioTokens(_)
ScenarioTokens(rss) ==
  IF rss = <<>> THEN <<>>
  ELSE << Quote \o Head(rss).path \o <<"|">> \o Head(rss).name
          \o <<"|", "1", "|", "1", "*">> \o Quote >>
       \o ScenarioTokens(Tail(rss))

\* lines 101-111: the directive text of a ResourceSet
ResourceDirectives(testResources) ==
  (IF testResources.functionLibraries # <<>>
     THEN <<"RestartFLEngine">> \o CRLF
          \o LoadFunctionLibraryLines(testResources.functionLibraries)
     ELSE <<>>)
  \o
  (IF testResources.recoveryScenarioData # <<>>
     THEN <<"LoadRecoveryScenario ">>
          \o Join(ScenarioTokens(testResources.recoveryScenarioData), <<",">>)
     ELSE <<>>)

\* scriptData[i] of JavaScript: 0-based, undefined outside the array
HasUnit(sd, i) == i >= 0 /\ i < Len(sd)
UnitAt(sd, i) == sd[i + 1]

\* line 93: 'unit' is scriptData[index], so the second operand compares the
\* unit's path with itself
NeedsResources(sd, i) ==
  \/ i = 0
  \/ (HasUnit(sd, i - 1) /\ UnitAt(sd, i).testPath # UnitAt(sd, i).testPath)

\* lines 91-115: the element pushed to scriptLines for the unit at index i
UnitLine(sd, i) ==
  (IF NeedsResources(sd, i)
     THEN ResourceDirectives(extractTestResources(UnitAt(sd, i).testPath))
     ELSE <<>>)
  \o UnitAt(sd, i).basicScript

\* lines 93-97: the iteration for the unit at index i raises
UnitRaises(sd, i) ==
  NeedsResources(sd, i) /\ ~isTestFolder(UnitAt(sd, i).testPath)

\* lines 90-117, one iteration that does not raise
CompileUnit ==
  /\ cpc = "loop"
  /\ HasUnit(scriptData, index)
  /\ ~UnitRaises(scriptData, index)
  /\ resolvedAt' = IF NeedsResources(scriptData, index)
                     THEN Append(resolvedAt, index)
                     ELSE resolvedAt
  /\ scriptLines' = Append(scriptLines, UnitLine(scriptData, index))
  /\ index' = index + 1
  /\ UNCHANGED <<scriptData, compiled, cpc>>
  /\ UNCHANGED <<junitVars, mbtVars, ftVars, hostVars>>

\* lines 95-97: the iteration raises 'invalid test path'
CompileThrow ==
  /\ cpc = "loop"
  /\ HasUnit(scriptData, index)
  /\ UnitRaises(scriptData, index)
  /\ cpc' = "thrown"
  /\ UNCHANGED <<scriptData, index, scriptLines, resolvedAt, compiled>>
  /\ UNCHANGED <<junitVars, mbtVars, ftVars, hostVars>>

\* line 119
CompileReturn ==
  /\ cpc = "loop"
  /\ ~HasUnit(scriptData, index)
  /\ compiled' = Join(scriptLines, CRLF)
  /\ cpc' = "done"
  /\ UNCHANGED <<scriptData, index, scriptLines, resolvedAt>>
  /\ UNCHANGED <<junitVars, mbtVars, ftVars, hostVars>>

\* lines 85-120 as one call: whether it raises, and the text it returns
updateTestScriptResourcesRaises(sd) ==
  \E i \in 0..(Len(sd) - 1) : UnitRaises(sd, i)

updateTestScriptResources(sd) ==
  Join([k \in 1..Len(sd) |-> UnitLine(sd, k - 1)], CRLF)

\* ---- createMbtPropsFile (lines 13-46) ----
\* process.cwd() and formatTimestamp()
WorkDir == <<"cwd">>
Timestamp == <<"20250101_000000">>

\* lines 17 and 35
MbtPropsPath == PathJoin(WorkDir, <<"___mbt">>)
MbtPropsFullPath == PathJoin(WorkDir, <<"mbt_props_">> \o Timestamp \o <<".txt">>)

\* lines 19-24
InitialProps ==
  << << <<"runType">>, <<"MBT">> >>,
     << <<"resultsFilename">>, <<"must be here">> >>,
     << <<"parentFolder">>, MbtPropsPath >>,
     << <<"repoFolder">>, WorkDir >> >>

\* line 26, as the continuation of callback i sees it once n callbacks have
\* started, had 'idx' been declared outside the callback
IdxShared(i, n) == n

\* line 26: 'idx' is a constant of callback i, so its continuation after the
\* await of line 29 sees i + 1 whatever the other n callbacks did
Idx(i, n) == i + 1

\* `${name}${idx}`
PropKey(name, idx) == <<name>> \o NumText(idx)

\* the numbers of an array joined by ';' (lines 30-31)
JoinSemi(list) == Join([k \in 1..Len(list) |-> NumText(list[k])], <<";">>)

\* lines 27-28: callback i up to the call of line 29
TaskStart(p, infos, i) ==
  LET idx == Idx(i, i + 1)
      p1 == MapSet(p, PropKey("test", idx), infos[i + 1].testName)
  IN MapSet(p1, PropKey("package", idx), <<"_">> \o NumText(idx))

TaskStartKeys(i) ==
  { <<i, PropKey(name, Idx(i, i + 1))>> : name \in {"test", "package"} }

\* Array.prototype.map runs the callbacks in index order, each up to its await
RECURSIVE StartAll(_, _, _)
StartAll(p, infos, i) ==
  IF i >= Len(infos) THEN p
  ELSE StartAll(TaskStart(p, infos, i), infos, i + 1)

\* lines 29-32: callback i after its await
TaskFinish(p, infos, i) ==
  LET idx == Idx(i, Len(infos))
      info == infos[i + 1]
      p1 == MapSet(p, PropKey("script", idx),
                   updateTestScriptResources(info.scriptData))
      p2 == MapSet(p1, PropKey("unitIds", idx), JoinSemi(info.unitIds))
      p3 == MapSet(p2, PropKey("underlyingTests", idx),
                   JoinSemi(info.underlyingTests))
  IN MapSet(p3, PropKey("datableParams", idx), info.encodedIterationsStr)

TaskFinishKeys(infos, i) ==
  { <<i, PropKey(name, Idx(i, Len(infos)))>> :
      name \in {"script", "unitIds", "underlyingTests", "datableParams"} }

\* lines 39 and 337: Object.entries(props).map(([k, v]) => `${k}=${v}`).join('\n')
Serialize(p) ==
  Join([k \in 1..Len(p) |-> p[k][1] \o <<"=">> \o p[k][2]], <<"\n">>)

Tasks == 0..(Len(testInfos) - 1)

\* a callback whose scriptData is empty awaits no I/O: its continuation is a
\* microtask, run in index order before any callback that awaits the disk
NoIO(i) == testInfos[i + 1].scriptData = <<>>

MayResume(i) ==
  /\ taskPc[i] = "pending"
  /\ \A j \in Tasks :
       (NoIO(j) /\ taskPc[j] = "pending") => (NoIO(i) /\ i <= j)

\* line 14
MbtReturnEmpty ==
  /\ mpc = "start"
  /\ testInfos = <<>>
  /\ mbtResult' = Empty
  /\ mpc' = "returned"
  /\ UNCHANGED <<testInfos, props, taskPc, propWrites>>
  /\ UNCHANGED <<junitVars, compileVars, ftVars, hostVars>>

\* lines 15-33, up to the await of Promise.all
MbtStart ==
  /\ mpc = "start"
  /\ testInfos # <<>>
  /\ props' = StartAll(InitialProps, testInfos, 0)
  /\ taskPc' = [i \in Tasks |-> "pending"]
  /\ propWrites' = UNION { TaskStartKeys(i) : i \in Tasks }
  /\ mpc' = "awaiting"
  /\ UNCHANGED <<testInfos, mbtResult>>
  /\ UNCHANGED <<junitVars, compileVars, ftVars, hostVars>>

\* lines 29-32: the compilation of callback i ended and its continuation ran.
\* After a rejection of Promise.all the other callbacks still run on.
TaskComplete(i) ==
  /\ mpc \in {"awaiting", "rejected"}
  /\ MayResume(i)
  /\ ~updateTestScriptResourcesRaises(testInfos[i + 1].scriptData)
  /\ props' = TaskFinish(props, testInfos, i)
  /\ propWrites' = propWrites \cup TaskFinishKeys(testInfos, i)
  /\ taskPc' = [taskPc EXCEPT ![i] = "done"]
  /\ UNCHANGED <<testInfos, mbtResult, mpc>>
  /\ UNCHANGED <<junitVars, compileVars, ftVars, hostVars>>

\* line 29 raises in callback i: Promise.all rejects, and createMbtPropsFile
\* with it
TaskFail(i) ==
  /\ mpc \in {"awaiting", "rejected"}
  /\ MayResume(i)
  /\ updateTestScriptResourcesRaises(testInfos[i + 1].scriptData)
  /\ taskPc' = [taskPc EXCEPT ![i] = "failed"]
  /\ mpc' = "rejected"
  /\ UNCHANGED <<testInfos, props, propWrites, mbtResult>>
  /\ UNCHANGED <<junitVars, compileVars, ftVars, hostVars>>

\* line 38, once Promise.all has resolved
MbtMkdir ==
  /\ mpc = "awaiting"
  /\ \A i \in Tasks : taskPc[i] = "done"
  /\ dirs' = dirs \cup {MbtPropsPath}
  /\ mpc' = "write"
  /\ UNCHANGED <<testInfos, props, taskPc, propWrites, mbtResult>>
  /\ UNCHANGED <<files, spawned>>
  /\ UNCHANGED <<junitVars, compileVars, ftVars>>

\* lines 39 and 45
MbtWriteFile ==
  /\ mpc = "write"
  /\ files' = Append(files, [path |-> MbtPropsFullPath,
                             content |-> Serialize(props)])
  /\ mbtResult' = MbtPropsFullPath
  /\ mpc' = "returned"
  /\ UNCHANGED <<testInfos, props, taskPc, propWrites>>
  /\ UNCHANGED <<dirs, spawned>>
  /\ UNCHANGED <<junitVars, compileVars, ftVars>>

\* lines 40-43: mkdir or writeFile raises
MbtFsError ==
  /\ \/ mpc = "awaiting" /\ \A i \in Tasks : taskPc[i] = "done"
     \/ mpc = "write"
  /\ mpc' = "failed"
  /\ UNCHANGED <<testInfos, props, taskPc, propWrites, mbtResult>>
  /\ UNCHANGED <<junitVars, compileVars, ftVars, hostVars>>

\* ---- ExitCode (lines 284-292) ----
ExitCodes == {0, -1, -2, -3, -4, -5, -99}

\* ---- FtTestExecuter (lines 293-362) ----
\* getTimestamp(), FTL.FileSystem, FTL._MBT and the path FTL.ensureToolExists
\* resolves to
Suffix == <<"20250101000000">>
FtlFileSystem == <<"FileSystem">>
FtlMbt == <<"_MBT">>
ActionBinPath == <<"FTToolsLauncher">>

\* escapePropVal (../utils/utils): a reserved character (key/value separator,
\* line terminator, quoting character, the escape character itself) is
\* replaced by an escape sequence
RECURSIVE escapePropVal(_)
escapePropVal(v) ==
  IF v = <<>> THEN <<>>
  ELSE (IF Head(v) = "\n" THEN <<"\\", "n">>
        ELSE IF Head(v) = "\r" THEN <<"\\", "r">>
        ELSE IF Head(v) \in {"=", "\"", "\\"} THEN <<"\\", Head(v)>>
        ELSE <<Head(v)>>)
       \o escapePropVal(Tail(v))

\* lines 318-320
PropsFullPath == PathJoin(config.runnerWorkspacePath, <<"props_">> \o Suffix \o <<".txt">>)
ResFullPath == PathJoin(config.runnerWorkspacePath, <<"results_">> \o Suffix \o <<".xml">>)
MtbxFullPath == PathJoin(config.runnerWorkspacePath, <<"testsuite_">> \o Suffix \o <<".mtbx">>)

\* lines 351-354: the element of one test
MtbxTest(testInfo) ==
  LET fullPath == PathJoin(PathJoin(PathJoin(config.runnerWorkspacePath, FtlMbt),
                                    NumText(testInfo.runId)),
                           testInfo.testName)
  IN <<"\t", "<Test runid=">> \o Quote \o NumText(testInfo.runId) \o Quote
     \o <<" name=">> \o Quote \o testInfo.testName \o Quote
     \o <<" path=">> \o Quote \o fullPath \o Quote \o <<" />", "\n">>

RECURSIVE MtbxTests(_)
MtbxTests(infos) ==
  IF infos = <<>> THEN <<>> ELSE MtbxTest(Head(infos)) \o MtbxTests(Tail(infos))

\* lines 348-356: the callback of testInfos.map awaits nothing, so every
\* element is appended before line 356
MtbxXml(infos) == <<"<Mtbx>", "\n">> \o MtbxTests(infos) \o <<"</Mtbx>">>

\* lines 325-335
FtProps ==
  LET p == << << <<"runType">>, FtlFileSystem >>,
              << <<"Test1">>, escapePropVal(MtbxFullPath) >>,
              << <<"resultsFilename">>, escapePropVal(ResFullPath) >> >>
  IN IF Truthy(config.digitalLabUrl) /\ Truthy(config.digitalLabExecToken)
       THEN MapSet(MapSet(p, <<"MobileHostAddress">>, config.digitalLabUrl),
                   <<"MobileExecToken">>, config.digitalLabExecToken)
       ELSE p

\* checkFileExists
FileExists(path) == \E k \in 1..Len(files) : files[k].path = path

\* line 307: checkReadWriteAccess resolves
FtCheckAccess ==
  /\ fpc = "access"
  /\ host.writable
  /\ fpc' = "mtbx"
  /\ UNCHANGED <<uftInfos, config, host, ftResult>>
  /\ UNCHANGED <<junitVars, compileVars, mbtVars, hostVars>>

\* line 307: checkReadWriteAccess raises
FtAccessDenied ==
  /\ fpc = "access"
  /\ ~host.writable
  /\ fpc' = "threw-access"
  /\ UNCHANGED <<uftInfos, config, host, ftResult>>
  /\ UNCHANGED <<junitVars, compileVars, mbtVars, hostVars>>

\* lines 308-309, 318-323, 346-360: createMtbxFile
FtCreateMtbxFile ==
  /\ fpc = "mtbx"
  /\ files' = Append(files, [path |-> MtbxFullPath,
                             content |-> MtbxXml(uftInfos)])
  /\ fpc' = "props"
  /\ UNCHANGED <<uftInfos, config, host, ftResult>>
  /\ UNCHANGED <<dirs, spawned>>
  /\ UNCHANGED <<junitVars, compileVars, mbtVars>>

\* lines 324-343: checkFileExists, the mapping, the properties file
FtWritePropsFile ==
  /\ fpc = "props"
  /\ FileExists(MtbxFullPath)
  /\ files' = Append(files, [path |-> PropsFullPath,
                             content |-> Serialize(FtProps)])
  /\ fpc' = "tool"
  /\ UNCHANGED <<uftInfos, config, host, ftResult>>
  /\ UNCHANGED <<dirs, spawned>>
  /\ UNCHANGED <<junitVars, compileVars, mbtVars>>

\* line 358 or lines 336-341: fs.writeFile raises
FtWriteFailed ==
  /\ fpc \in {"mtbx", "props"}
  /\ fpc' = "threw-write"
  /\ UNCHANGED <<uftInfos, config, host, ftResult>>
  /\ UNCHANGED <<junitVars, compileVars, mbtVars, hostVars>>

\* lines 310-311: checkFileExists, then FTL.ensureToolExists resolves
FtEnsureToolExists ==
  /\ fpc = "tool"
  /\ FileExists(PropsFullPath)
  /\ host.toolInstalled
  /\ fpc' = "run"
  /\ UNCHANGED <<uftInfos, config, host, ftResult>>
  /\ UNCHANGED <<junitVars, compileVars, mbtVars, hostVars>>

\* line 311: FTL.ensureToolExists raises (a required environment value is
\* missing, or the binary is not found or not executable)
FtToolMissing ==
  /\ fpc = "tool"
  /\ FileExists(PropsFullPath)
  /\ ~host.toolInstalled
  /\ fpc' = "threw-tool"
  /\ UNCHANGED <<uftInfos, config, host, ftResult>>
  /\ UNCHANGED <<junitVars, compileVars, mbtVars, hostVars>>

\* lines 312-314: FTL.runTool spawns the engine and waits for its exit
FtRunTool ==
  /\ fpc = "run"
  /\ \E exitCode \in ExitCodes :
       ftResult' = [exitCode |-> exitCode, resFullPath |-> ResFullPath,
                    propsFullPath |-> PropsFullPath,
                    mtbxFullPath |-> MtbxFullPath]
  /\ spawned' = Append(spawned, [bin |-> ActionBinPath, arg |-> PropsFullPath])
  /\ fpc' = "returned"
  /\ UNCHANGED <<uftInfos, config, host>>
  /\ UNCHANGED <<files, dirs>>
  /\ UNCHANGED <<junitVars, compileVars, mbtVars>>

\* inputs: the units (MbtScriptData)
BasicScripts == { <<"stepA">>, <<"stepB">> }
Units == [unitId : {11}, testPath : TestPaths, basicScript : BasicScripts]

RECURSIVE SeqsUpTo(_, _)
SeqsUpTo(S, n) ==
  IF n = 0 THEN { <<>> }
  ELSE LET shorter == SeqsUpTo(S, n - 1)
       IN shorter \cup { Append(q, x) : q \in shorter, x \in S }

\* ------------------------------------------------------------------------
\* JUnitXmlIterator (src/src/reporting/JUnitXmlIterator.ts)
\* ------------------------------------------------------------------------
DescStart == <<"_", "_", "octane_description_start", "_", "_">>
DescEnd == <<"_", "_", "octane_description_end", "_", "_">>
UrlStart == <<"_", "_", "octane_external_url_start", "_", "_">>
UrlEnd == <<"_", "_", "octane_external_url_end", "_", "_">>

\* the token searched in the stack trace (line 58)
AtToken == <<"a", "t", " ">>
Colon == <<":">>

\* constructor arguments (lines 31-34)
BuildStarted == 1700
RunResultsFiles == [r \in {1, 3} |-> IF r = 1 THEN "run1.xml" ELSE "run3.xml"]

\* getMBTData (./utils): the steps stored in a run-results file, or null
GetMBTData(path) ==
  IF path = "run1.xml" THEN <<"step1", "step2">> ELSE Null

\* inputs: the optional fields of a CaseResult
TestNames == {<<"t1">>}
Durations == {Absent}
StackTraces ==
  { Absent,
    Empty,
    <<"TypeError: x is undefined", "\n", " ", "a", "t", " ", "foo.js:12">>,
    <<"Form", "a", "t", " ", "error">> }
ErrorDetails ==
  { Absent,
    <<"AssertionError", ":", " expected true">>,
    <<"boom">> }
Stdouts ==
  { Absent,
    Empty,
    <<"log">> \o DescStart \o <<" ", "hello world", " ">> \o DescEnd
      \o <<"mid">> \o UrlStart \o <<"http://x">> \o UrlEnd \o <<"tail">>,
    DescStart \o <<" ", "hello world", " ">> \o DescEnd,
    <<"log">> \o DescStart \o <<"hello world">> }
RunIds == {1, 2, 3}

CaseResults ==
  [ testName : TestNames, duration : Durations, skipped : BOOLEAN,
    errorStackTrace : StackTraces, errorDetails : ErrorDetails,
    stdout : Stdouts, runId : RunIds ]

NoCase ==
  [ testName |-> Absent, duration |-> Absent, skipped |-> FALSE,
    errorStackTrace |-> Absent, errorDetails |-> Absent,
    stdout |-> Absent, runId |-> 0 ]

\* the instance fields as initialised at lines 13-29
NewIterator ==
  [ moduleName |-> Empty, packageName |-> Empty, className |-> Empty,
    testName |-> Empty, testDuration |-> 0, status |-> "Passed",
    stackTraceStr |-> Empty, errorType |-> Empty, errorMsg |-> Empty,
    externalURL |-> Empty, description |-> Empty, resultData |-> <<>>,
    runId |-> 0, externalAssets |-> Empty ]

\* tc.testName || ''
OrEmpty(s) == IF Truthy(s) THEN s ELSE Empty

\* tc.duration || 0
OrZero(d) == IF d = Absent THEN 0 ELSE d

\* line 53
SkippedOrPassed(tc) == IF tc.skipped THEN "Skipped" ELSE "Passed"

\* line 54: the condition guarding the error block
HasError(tc) == Truthy(tc.errorStackTrace) \/ Truthy(tc.errorDetails)

\* line 55, given the status line 53 has set: a skipped case that failed
\* is not left Skipped
StatusInErrorBlockKeepSkipped(prev) ==
  IF prev = "Skipped" THEN prev ELSE "Failed"

\* line 55: the status the error block sets, whatever line 53 has set
StatusInErrorBlock(prev) == "Failed"

\* lines 54-67: the error block.  Calling indexOf on undefined raises a
\* TypeError: the fields assigned before it keep their new values.
\* Result: [f |-> the fields, thrown |-> whether the block raised]
ErrorBlock(f, tc) ==
  IF ~HasError(tc) THEN [f |-> f, thrown |-> FALSE]
  ELSE
    LET f1 == [f EXCEPT !.status = StatusInErrorBlock(f.status),
                        !.stackTraceStr = tc.errorStackTrace,
                        !.errorMsg = tc.errorDetails]
    IN IF tc.errorStackTrace = Absent THEN [f |-> f1, thrown |-> TRUE]
       ELSE
         LET idx == IndexOf(tc.errorStackTrace, AtToken)
         IN IF idx >= 0
              THEN [f |-> [f1 EXCEPT !.errorType =
                                Substring(tc.errorStackTrace, 0, idx)],
                    thrown |-> FALSE]
            ELSE IF tc.errorDetails = Absent THEN [f |-> f1, thrown |-> TRUE]
            ELSE
              LET idx2 == IndexOf(tc.errorDetails, Colon)
              IN IF idx2 >= 0
                   THEN [f |-> [f1 EXCEPT !.errorType =
                                     Substring(tc.errorDetails, 0, idx2)],
                         thrown |-> FALSE]
                   ELSE [f |-> f1, thrown |-> FALSE]

\* lines 68-74: the run-results lookup
LoadResultData(f, tc) ==
  IF tc.runId \in DOMAIN RunResultsFiles
    THEN LET data == GetMBTData(RunResultsFiles[tc.runId])
         IN [f EXCEPT !.resultData = IF data = Null THEN <<>> ELSE data]
    ELSE f

\* lines 107-117
extractValueFromStdout(stdoutValue, startString, endString, defaultValue) ==
  LET startIndex == IndexOf(stdoutValue, startString)
  IN IF startIndex > 0
       THEN LET endIndex == IndexOfFrom(stdoutValue, endString, startIndex)
            IN IF endIndex > 0
                 THEN Trim(Substring(stdoutValue,
                                     startIndex + Len(startString), endIndex))
                 ELSE defaultValue
       ELSE defaultValue

\* lines 76-79
ScrapeStdout(f, tc) ==
  IF Truthy(tc.stdout)
    THEN [f EXCEPT
            !.description =
               extractValueFromStdout(tc.stdout, DescStart, DescEnd, Empty),
            !.externalURL =
               extractValueFromStdout(tc.stdout, UrlStart, UrlEnd, Empty)]
    ELSE f

NullError == [isNull |-> TRUE]

\* lines 81-83
TestError(f) ==
  IF Truthy(f.stackTraceStr) \/ Truthy(f.errorMsg)
    THEN [isNull |-> FALSE, stackTraceStr |-> f.stackTraceStr,
          errorType |-> f.errorType, errorMsg |-> f.errorMsg]
    ELSE NullError

\* lines 85-102: new JUnitTestResult(...)
JUnitTestResult(f) ==
  [ moduleName |-> f.moduleName, packageName |-> f.packageName,
    className |-> f.className, testName |-> f.testName,
    status |-> f.status, duration |-> f.testDuration,
    buildStarted |-> BuildStarted, testError |-> TestError(f),
    externalURL |-> f.externalURL, description |-> f.description,
    resultData |-> f.resultData, runId |-> f.runId,
    externalAssets |-> f.externalAssets ]

\* lines 50-52
ResetNames(f, tc) ==
  [f EXCEPT !.moduleName = Empty, !.className = Empty, !.packageName = Empty,
            !.testName = OrEmpty(tc.testName),
            !.testDuration = OrZero(tc.duration),
            !.status = SkippedOrPassed(tc)]

\* lines 49-105, up to and including the error block
AfterErrorBlock(f, tc) == ErrorBlock(ResetNames(f, tc), tc)

\* lines 68-85, the rest of the fields
AfterScrape(f, tc) ==
  [ScrapeStdout(LoadResultData(f, tc), tc) EXCEPT !.runId = tc.runId]

\* processTestCase (lines 49-105).  When the error block raises at line 58
\* or 62 nothing is stored, and processXmlResult (lines 36-47), which does
\* not catch, ends its iteration over the cases.
ProcessTestCase(tc) ==
  /\ jpc = "ready"
  /\ nCases < MaxCases
  /\ LET r == AfterErrorBlock(it, tc)
     IN IF r.thrown
          THEN /\ it' = r.f
               /\ jpc' = "thrown"
               /\ UNCHANGED results
          ELSE LET f == AfterScrape(r.f, tc)
               IN /\ it' = f
                  /\ results' = MapSet(results, f.testName, JUnitTestResult(f))
                  /\ jpc' = "ready"
  /\ lastCase' = tc
  /\ nCases' = nCases + 1
  /\ UNCHANGED <<compileVars, mbtVars, ftVars, hostVars>>

\* ------------------------------------------------------------------------
\* Specifications
\* ------------------------------------------------------------------------
JUnitIdle ==
  /\ it = NewIterator
  /\ results = <<>>
  /\ lastCase = NoCase
  /\ jpc = "idle"
  /\ nCases = 0

NoResult ==
  [exitCode |-> 0, resFullPath |-> Empty, propsFullPath |-> Empty,
   mtbxFullPath |-> Empty]

MbtIdle ==
  /\ testInfos = <<>>
  /\ props = <<>>
  /\ taskPc = <<>>
  /\ propWrites = {}
  /\ mbtResult = Empty
  /\ mpc = "idle"

FtIdle ==
  /\ uftInfos = <<>>
  /\ config = [runnerWorkspacePath |-> Empty, digitalLabUrl |-> Empty,
               digitalLabExecToken |-> Empty]
  /\ host = [writable |-> FALSE, toolInstalled |-> FALSE]
  /\ ftResult = NoResult
  /\ fpc = "idle"

HostIdle ==
  /\ files = <<>>
  /\ dirs = {}
  /\ spawned = <<>>

CompileIdle ==
  /\ scriptData = <<>>
  /\ index = 0
  /\ scriptLines = <<>>
  /\ resolvedAt = <<>>
  /\ compiled = Empty
  /\ cpc = "idle"

InitCompile ==
  /\ scriptData \in SeqsUpTo(Units, MaxUnits)
  /\ index = 0
  /\ scriptLines = <<>>
  /\ resolvedAt = <<>>
  /\ compiled = Empty
  /\ cpc = "loop"
  /\ JUnitIdle /\ MbtIdle /\ FtIdle /\ HostIdle

NextCompile ==
  \/ CompileUnit
  \/ CompileThrow
  \/ CompileReturn

SpecCompile == InitCompile /\ [][NextCompile]_vars

\* inputs: the MbtTestInfo list
UnitA == [unitId |-> 11, testPath |-> <<"A">>, basicScript |-> <<"stepA">>]
UnitB == [unitId |-> 11, testPath |-> <<"B">>, basicScript |-> <<"stepB">>]
UnitC == [unitId |-> 11, testPath |-> <<"C">>, basicScript |-> <<"stepA">>]
UnitX == [unitId |-> 11, testPath |-> <<"X">>, basicScript |-> <<"stepB">>]

MbtTestInfos ==
  [ testName : { <<"Login">> },
    scriptData : { <<>>, <<UnitB>>, <<UnitC, UnitC>>, <<UnitA, UnitB>>, <<UnitX>> },
    unitIds : { <<11, 12>> },
    underlyingTests : { <<5>> },
    encodedIterationsStr : { <<"e30", "=">> } ]

InitMbt ==
  /\ testInfos \in SeqsUpTo(MbtTestInfos, MaxTests)
  /\ props = <<>>
  /\ taskPc = <<>>
  /\ propWrites = {}
  /\ mbtResult = Empty
  /\ mpc = "start"
  /\ JUnitIdle /\ CompileIdle /\ FtIdle /\ HostIdle

NextMbt ==
  \/ MbtReturnEmpty
  \/ MbtStart
  \/ \E i \in Tasks : TaskComplete(i)
  \/ \E i \in Tasks : TaskFail(i)
  \/ MbtMkdir
  \/ MbtWriteFile
  \/ MbtFsError

\* inputs: the UftTestInfo list, the configuration, the host
UftTestInfos == [runId : {1, 2}, testName : { <<"T">> }]

Configs ==
  [ runnerWorkspacePath : { <<"C:", "\\", "ws">> },
    digitalLabUrl : { Empty, <<"https://lab">> },
    digitalLabExecToken : { Empty, <<"client", "=", "id;secret", "=", "s">> } ]

Hosts == [writable : BOOLEAN, toolInstalled : BOOLEAN]

InitFt ==
  /\ uftInfos \in SeqsUpTo(UftTestInfos, MaxTests)
  /\ config \in Configs
  /\ host \in Hosts
  /\ ftResult = NoResult
  /\ fpc = "access"
  /\ JUnitIdle /\ CompileIdle /\ MbtIdle /\ HostIdle

NextFt ==
  \/ FtCheckAccess
  \/ FtAccessDenied
  \/ FtCreateMtbxFile
  \/ FtWritePropsFile
  \/ FtWriteFailed
  \/ FtEnsureToolExists
  \/ FtToolMissing
  \/ FtRunTool

\* the two build entry points
InitBuild == InitMbt \/ InitFt

NextBuild == NextMbt \/ NextFt

SpecBuild == InitBuild /\ [][NextBuild]_vars

InitJUnit ==
  /\ it = NewIterator
  /\ results = <<>>
  /\ lastCase = NoCase
  /\ jpc = "ready"
  /\ nCases = 0
  /\ CompileIdle /\ MbtIdle /\ FtIdle /\ HostIdle

NextJUnit == \E tc \in CaseResults : ProcessTestCase(tc)

SpecJUnit == InitJUnit /\ [][NextJUnit]_vars

\* the pipeline: any one of the components
Init == InitCompile \/ InitBuild \/ InitJUnit

Next == NextCompile \/ NextBuild \/ NextJUnit

Spec == Init /\ [][Next]_vars

\* ------------------------------------------------------------------------
\* Properties of the script compiler
\* ------------------------------------------------------------------------
\* the 0-based indexes of the first unit and of every unit whose test path
\* differs from its predecessor's
ChangePoints(sd) ==
  { i \in 0..(Len(sd) - 1) : i = 0 \/ sd[i + 1].testPath # sd[i].testPath }

ResolvedIndexes == { resolvedAt[k] : k \in 1..Len(resolvedAt) }

\* C1: the units at which the test path is validated and the resource
\* directives are resolved and injected are exactly the first unit and every
\* later unit whose test path differs from its predecessor's; such a unit gets
\* the directives of its own path, any other unit gets none, and every unit's
\* own fragment is appended.
C1_ResolvedAtPathChanges ==
  cpc = "done" =>
    /\ ResolvedIndexes = ChangePoints(scriptData)
    /\ \A i \in 0..(Len(scriptData) - 1) :
         scriptLines[i + 1] =
           (IF i \in ChangePoints(scriptData)
              THEN ResourceDirectives(
                     extractTestResources(scriptData[i + 1].testPath))
              ELSE <<>>)
           \o scriptData[i + 1].basicScript

\* the directives of a ResourceSet, one fragment each, without terminators
DirectiveFragments(res) ==
  (IF res.functionLibraries # <<>>
     THEN << <<"RestartFLEngine">> >>
          \o [k \in 1..Len(res.functionLibraries) |->
                <<" LoadFunctionLibrary ">> \o Quote
                  \o res.functionLibraries[k] \o Quote]
     ELSE <<>>)
  \o
  (IF res.recoveryScenarioData # <<>>
     THEN << <<"LoadRecoveryScenario ">>
             \o Join(ScenarioTokens(res.recoveryScenarioData), <<",">>) >>
     ELSE <<>>)

\* every fragment emitted for the units from index i on, where the code
\* resolved resources
RECURSIVE EmittedFragments(_, _)
EmittedFragments(sd, i) ==
  IF i >= Len(sd) THEN <<>>
  ELSE (IF i \in ResolvedIndexes
          THEN DirectiveFragments(extractTestResources(sd[i + 1].testPath))
          ELSE <<>>)
       \o << sd[i + 1].basicScript >>
       \o EmittedFragments(sd, i + 1)

\* C8: in the text compile returns, every emitted fragment (the engine-reset
\* directive, each library load directive, the LoadRecoveryScenario directive,
\* each unit's fragment) is separated from the next one by "\r\n".
C8_FragmentsLineTerminated ==
  cpc = "done" => compiled = Join(EmittedFragments(scriptData, 0), CRLF)

\* ------------------------------------------------------------------------
\* Properties of the descriptor builders
\* ------------------------------------------------------------------------
\* the content last written to a path
FileContent(path) ==
  LET k == CHOOSE j \in 1..Len(files) :
             /\ files[j].path = path
             /\ \A m \in (j + 1)..Len(files) : files[m].path # path
  IN files[k].content

\* C2: for an empty TestDefinition list neither entry point writes a file or
\* invokes the engine, and the path returned is empty.
C2_EmptyListNoEffect ==
  /\ (mpc # "idle" /\ testInfos = <<>>) =>
       /\ files = <<>> /\ dirs = {} /\ spawned = <<>>
       /\ mpc = "returned" => mbtResult = Empty
  /\ (fpc # "idle" /\ uftInfos = <<>>) =>
       /\ files = <<>> /\ spawned = <<>>
       /\ fpc = "returned" => ftResult.propsFullPath = Empty

\* a line of the properties file split at its first key/value separator
ParseLine(line) ==
  LET i == IndexOf(line, <<"=">>)
  IN IF i < 0 THEN <<line, Absent>>
     ELSE <<SubSeq(line, 1, i), SubSeq(line, i + 2, Len(line))>>

\* the properties file split into lines, each into key and value
ParseProps(text) ==
  LET lines == Split(text, "\n")
  IN [k \in 1..Len(lines) |-> ParseLine(lines[k])]

\* C7: the written properties file, split into lines and each line at its
\* key/value separator, reproduces exactly the mapping that was built, in
\* createMbtPropsFile and in createPropsFile.
C7_RoundTrip ==
  /\ (mpc = "returned" /\ testInfos # <<>>) =>
       ParseProps(FileContent(mbtResult)) = props
  /\ fpc \in {"tool", "run", "returned", "threw-tool"} =>
       ParseProps(FileContent(PropsFullPath)) = FtProps

\* C9: in FtTestExecuter.process a fatal configuration error (unwritable
\* workspace, missing environment value, engine binary not found) is raised
\* before any file is written and before any process is spawned.
C9_ConfigErrorBeforeEffects ==
  fpc \in {"threw-access", "threw-tool"} => (files = <<>> /\ spawned = <<>>)

\* the mapping the callbacks build when they complete in index order: first
\* those that await no I/O, then the others
RECURSIVE FinishInOrder(_, _, _, _)
FinishInOrder(p, infos, i, io) ==
  IF i >= Len(infos) THEN p
  ELSE FinishInOrder(IF (infos[i + 1].scriptData # <<>>) = io
                       THEN TaskFinish(p, infos, i)
                       ELSE p,
                     infos, i + 1, io)

ReferenceProps(infos) ==
  FinishInOrder(FinishInOrder(StartAll(InitialProps, infos, 0), infos, 0, FALSE),
                infos, 0, TRUE)

\* every assignment a callback made is to a key of its own index
OwnKeysOnly == \A w \in propWrites : w[2][2] = ToString(w[1] + 1)

\* C10 as stated: for every completion order of the callbacks the written
\* file (keys, values and the order of the entries) is the same, and each
\* callback writes only the keys of its own index.
C10_SameFileAnyOrder ==
  /\ OwnKeysOnly
  /\ (mpc = "returned" /\ testInfos # <<>>) =>
       FileContent(mbtResult) = Serialize(ReferenceProps(testInfos))

\* the entries createMbtPropsFile is to build for a list of tests
ExpectedEntries(infos) ==
  { << <<"runType">>, <<"MBT">> >>,
    << <<"resultsFilename">>, <<"must be here">> >>,
    << <<"parentFolder">>, <<"cwd", "/", "___mbt">> >>,
    << <<"repoFolder">>, <<"cwd">> >> }
  \cup UNION { { << <<"test", ToString(k)>>, infos[k].testName >>,
               << <<"package", ToString(k)>>, <<"_", ToString(k)>> >>,
               << <<"script", ToString(k)>>,
                  updateTestScriptResources(infos[k].scriptData) >>,
               << <<"unitIds", ToString(k)>>, JoinSemi(infos[k].unitIds) >>,
               << <<"underlyingTests", ToString(k)>>,
                  JoinSemi(infos[k].underlyingTests) >>,
               << <<"datableParams", ToString(k)>>,
                  infos[k].encodedIterationsStr >> } : k \in 1..Len(infos) }

\* C10 amended: for every completion order of the callbacks the mapping that
\* is serialized has the same keys with the same values, once each, and each
\* callback writes only the keys of its own index; the place of the script,
\* unitIds, underlyingTests and datableParams entries in the written file
\* follows the completion order.
C10_SameMappingAnyOrder ==
  /\ OwnKeysOnly
  /\ (mpc = "returned" /\ testInfos # <<>>) =>
       /\ { props[k] : k \in 1..Len(props) } = ExpectedEntries(testInfos)
       /\ Len(props) = Cardinality(ExpectedEntries(testInfos))
       /\ FileContent(mbtResult) = Serialize(props)

\* C10 witness: a file written after the callbacks completed out of index
\* order
C10_Witness ==
  /\ mpc = "returned"
  /\ Len(testInfos) > 1
  /\ props # ReferenceProps(testInfos)

\* ------------------------------------------------------------------------
\* Properties of the correlator
\* ------------------------------------------------------------------------
\* the latest processTestCase call returned and stored a result
Processed == nCases > 0 /\ jpc = "ready"

\* Map.prototype.get on the results
ResultOf(name) ==
  LET i == CHOOSE j \in 1..Len(results) : results[j][1] = name
  IN results[i][2]

\* the NormalizedResult stored for the latest case
LastResult == ResultOf(OrEmpty(lastCase.testName))

\* an optional text is present: neither missing nor empty
Present(s) == s # Absent /\ s # Empty

ErrorPresent(tc) == Present(tc.errorStackTrace) \/ Present(tc.errorDetails)

\* C3 as stated: Skipped takes precedence over Failed.
\* For every processed case the status is Skipped whenever the case is marked
\* skipped (even with an error present), otherwise Failed if an error stack
\* trace or detail text is present, otherwise Passed.
C3_SkippedBeatsFailed ==
  Processed =>
    LastResult.status =
      IF lastCase.skipped THEN "Skipped"
      ELSE IF ErrorPresent(lastCase) THEN "Failed"
      ELSE "Passed"

\* C3 amended: Failed takes precedence over Skipped.
\* For every case handed to processTestCase the status is Failed whenever an
\* error stack trace or detail text is present (even if the case is marked
\* skipped), otherwise Skipped if the case is marked skipped, otherwise
\* Passed; the stored NormalizedResult carries that status.
C3_FailedBeatsSkipped ==
  LET expected == IF ErrorPresent(lastCase) THEN "Failed"
                  ELSE IF lastCase.skipped THEN "Skipped"
                  ELSE "Passed"
  IN /\ nCases > 0 => it.status = expected
     /\ Processed => LastResult.status = expected

\* C3 witness: a stored result of a case marked skipped that also carries an
\* error, with status Failed
C3_Witness ==
  /\ Processed
  /\ lastCase.skipped
  /\ ErrorPresent(lastCase)
  /\ LastResult.status = "Failed"

\* the frame-marker token of the claim: blank, 'at', blank
FrameMarker == <<" ", "a", "t", " ">>

\* the error type C4 describes
ClaimedErrorType(tc) ==
  LET st == IF Present(tc.errorStackTrace) THEN tc.errorStackTrace ELSE Empty
      de == IF Present(tc.errorDetails) THEN tc.errorDetails ELSE Empty
  IN IF IndexOf(st, FrameMarker) >= 0
       THEN SubSeq(st, 1, IndexOf(st, FrameMarker))
     ELSE IF IndexOf(de, Colon) >= 0
       THEN SubSeq(de, 1, IndexOf(de, Colon))
     ELSE Empty

\* C4: for every Failed case, in any sequence of cases, processTestCase does
\* not raise and errorType is the stack trace before its first " at ", else
\* the error detail text before its first ':', else the empty string.
C4_ErrorType ==
  (nCases > 0 /\ ErrorPresent(lastCase)) =>
    /\ jpc = "ready"
    /\ ~LastResult.testError.isNull
    /\ LastResult.testError.errorType = ClaimedErrorType(lastCase)

\* the text strictly between two markers that C5 describes, trimmed
ClaimedScrape(stdout, startMarker, endMarker) ==
  IF ~Present(stdout) THEN Empty
  ELSE
    LET si == IndexOf(stdout, startMarker)
        ei == IndexOfFrom(stdout, endMarker, si)
    IN IF si > 0 /\ ei >= si /\ si + Len(startMarker) <= ei
         THEN Trim(SubSeq(stdout, si + Len(startMarker) + 1, ei))
         ELSE Empty

\* C5: for every case, in any sequence of cases, description and external
\* URL are the trimmed text between the markers of that case's own stdout,
\* and the empty string in every other situation, whatever earlier cases
\* contained.
C5_ScrapedFromOwnStdout ==
  Processed =>
    /\ LastResult.description =
         ClaimedScrape(lastCase.stdout, DescStart, DescEnd)
    /\ LastResult.externalURL =
         ClaimedScrape(lastCase.stdout, UrlStart, UrlEnd)

\* C6: a case whose run identifier is absent from the run-id -> file-path
\* mapping carries an empty step-data sequence, not the step data loaded for
\* an earlier case.
C6_AbsentRunIdEmptySteps ==
  (Processed /\ lastCase.runId \notin DOMAIN RunResultsFiles) =>
    LastResult.resultData = <<>>

\* the error record processTestCase builds for a case on a correlator that
\* has processed nothing before: the record whose fields come from that case
OwnErrorRecord(tc) == TestError(AfterErrorBlock(NewIterator, tc).f)

\* C11: after any sequence of processTestCase calls on one correlator, every
\* stored NormalizedResult has a non-null error record exactly when its
\* status is Failed, and the record of the latest case holds that case's own
\* stack trace, error type and error message; a Passed or Skipped case
\* processed after a Failed case carries no error record.
C11_ErrorRecordIffFailed ==
  /\ \A j \in 1..Len(results) :
       (~results[j][2].testError.isNull) <=> (results[j][2].status = "Failed")
  /\ Processed =>
       /\ ~ErrorPresent(lastCase) => LastResult.testError.isNull
       /\ ~LastResult.testError.isNull =>
            LastResult.testError = OwnErrorRecord(lastCase)

====
